---- MODULE Spec2Model ----
(***************************************************************************)
(* A model of the chevrotain Lexer (src/src/scan/lexer_public.ts): the     *)
(* constructor, which validates and compiles a lexer definition, and       *)
(* tokenize, whose main loop is modelled one iteration per step.           *)
(*                                                                         *)
(* Characters are their char codes, strings are sequences of char codes.   *)
(* JavaScript arrays are sequences; a JavaScript index i is position i+1   *)
(* of the sequence (see At).  The JavaScript value undefined is modelled   *)
(* by a sentinel of the type of the slot that holds it.                    *)
(***************************************************************************)
EXTENDS Integers, Sequences, FiniteSets, TLC

\* ------------------------------------------------------------------ bounds
\* longest input text handed to tokenize
MaxLen == 3
\* cap on the iterations of one call that consume nothing (a lexer whose
\* pattern matches the empty string may iterate forever)
MaxSteps == 4
\* longest input of the calls of a sequence of calls on one lexer, and of two
\* calls in progress at the same time
MaxRepeatLen == 1

\* -------------------------------------------------------------- characters
CharA == 97
CharB == 98
CR == 13
LF == 10
Alphabet == {CharA, CharB, CR, LF}

\* largest repetition count of a character class: "unbounded" for every input
Unbounded == 1000

RECURSIVE Strings(_)
Strings(n) ==
    IF n = 0 THEN {<<>>}
    ELSE LET shorter == Strings(n - 1)
         IN  shorter \cup {Append(s, c) : s \in {t \in shorter : Len(t) = n - 1}, c \in Alphabet}

Inputs == Strings(MaxLen)

\* ------------------------------------------------------ JavaScript values
undefined == "<undefined>"
undefinedIdx == -1

\* arr[i] of a JavaScript array (0-based)
At(arr, i) == arr[i + 1]

\* text.slice(n) / text.substr(n)
slice(text, n) == SubSeq(text, n + 1, Len(text))

first(arr) == IF Len(arr) = 0 THEN undefined ELSE arr[1]
last(arr) == IF Len(arr) = 0 THEN undefined ELSE arr[Len(arr)]
isEmpty(arr) == Len(arr) = 0

Min(x, y) == IF x < y THEN x ELSE y

\* ---------------------------------------------------------------- patterns
\* A RegExp is one of three shapes: an ordered alternation of literals
\* (/\r\n|\r|\n/), a repeated character class (/[ab]{min,max}/, greedy) or a
\* lookahead for one character of a class (/(?=[b])/), which consumes nothing.
Alt(alts) == [kind |-> "alt", alts |-> alts, set |-> {}, min |-> 0, max |-> 0,
              eoi |-> FALSE, flags |-> {}]
Cls(set, min, max) == [kind |-> "cls", alts |-> <<>>, set |-> set, min |-> min, max |-> max,
                       eoi |-> FALSE, flags |-> {}]
Lit(str) == Alt(<<str>>)
Look(set) == [kind |-> "look", alts |-> <<>>, set |-> set, min |-> 0, max |-> 0,
              eoi |-> FALSE, flags |-> {}]
\* Lexer.NA: the class is a category only
NA == [kind |-> "NA", alts |-> <<>>, set |-> {}, min |-> 0, max |-> 0,
       eoi |-> FALSE, flags |-> {}]
\* no PATTERN property at all
NoPattern == [kind |-> "missing", alts |-> <<>>, set |-> {}, min |-> 0, max |-> 0,
              eoi |-> FALSE, flags |-> {}]

IsPrefix(str, text) == Len(str) <= Len(text) /\ SubSeq(text, 1, Len(str)) = str

\* length of the longest run of characters of set at the start of text, at most max
PrefixRun(set, text, max) ==
    LET lim == Min(Len(text), max)
    IN  CHOOSE n \in 0..lim :
            /\ \A k \in 1..n : text[k] \in set
            /\ n = lim \/ text[n + 1] \notin set

noMatch == -1

\* pattern.exec(text) for a pattern anchored at the start of the text:
\* the length of match[0], or noMatch for null
exec(pattern, text) ==
    IF pattern.kind = "alt"
    THEN IF \E k \in 1..Len(pattern.alts) : IsPrefix(pattern.alts[k], text)
         THEN Len(pattern.alts[CHOOSE k \in 1..Len(pattern.alts) :
                      /\ IsPrefix(pattern.alts[k], text)
                      /\ \A h \in 1..(k - 1) : ~IsPrefix(pattern.alts[h], text)])
         ELSE noMatch
    ELSE IF pattern.kind = "look"
    THEN IF Len(text) > 0 /\ text[1] \in pattern.set THEN 0 ELSE noMatch
    ELSE LET n == PrefixRun(pattern.set, text, pattern.max)
         IN  IF n >= pattern.min THEN n ELSE noMatch

\* pattern.test(text)
test(pattern, text) == exec(pattern, text) # noMatch

\* the pattern can match the empty string: at the end of the text, or, a
\* lookahead, before a character
MatchesEmpty(pattern) == pattern.kind = "look" \/ exec(pattern, <<>>) # noMatch

\* ------------------------------------------------------- token descriptors
SKIPPED == "<Lexer.SKIPPED>"
\* a GROUP that is neither a string nor Lexer.SKIPPED
BadGroup == "<not a string>"

\* a Token constructor with its static properties
TokenClass(name, pattern, group, longerAlt, pushMode, popMode) ==
    [name |-> name, PATTERN |-> pattern, GROUP |-> group, LONGER_ALT |-> longerAlt,
     PUSH_MODE |-> pushMode, POP_MODE |-> popMode]

Plain(name, pattern) == TokenClass(name, pattern, undefined, undefined, undefined, FALSE)

\* ------------------------------------------------------ lexer definitions
\* A definition is either an array of Token constructors or an object that
\* maps mode names to such arrays; the object's keys are kept in order.
ArrayDef(tokens) == [isArray |-> TRUE, tokens |-> tokens, modes |-> <<>>]
ModesDef(modes) == [isArray |-> FALSE, tokens |-> <<>>, modes |-> modes]
ModeDef(name, tokens) == [name |-> name, tokens |-> tokens]

NewLineChars == {CR, LF}

\* keywords with a longer alternative, line terminators skipped
DefKeywords ==
    ArrayDef(<<
        TokenClass("Keyword", NA, undefined, "Identifier", undefined, FALSE),
        TokenClass("Do", Lit(<<CharA>>), undefined, "Identifier", undefined, FALSE),
        Plain("Identifier", Cls({CharA, CharB}, 1, Unbounded)),
        TokenClass("NewLine", Alt(<< <<CR, LF>>, <<CR>>, <<LF>> >>), SKIPPED, undefined, undefined, FALSE) >>)

\* one character per line-terminator token, in a named group; CharB is unexpected
DefLines ==
    ArrayDef(<<
        Plain("Word", Cls({CharA}, 1, Unbounded)),
        TokenClass("Eol", Cls(NewLineChars, 1, 1), "eol", undefined, undefined, FALSE) >>)

\* multi-line tokens; LF alone is unexpected
DefComments ==
    ArrayDef(<<
        TokenClass("Comment", Cls({CharB, CR, LF}, 2, Unbounded), "comments", undefined, undefined, FALSE),
        Plain("Text", Cls({CharA, CR}, 1, Unbounded)) >>)

\* two modes entered and left by push and pop
DefModes ==
    ModesDef(<<
        ModeDef("M1", <<
            TokenClass("Enter", Lit(<<CharA>>), undefined, undefined, "M2", FALSE),
            Plain("X", Lit(<<CharB>>)) >>),
        ModeDef("M2", <<
            Plain("Y", Lit(<<CharB>>)),
            TokenClass("Exit", Lit(<<CharA>>), undefined, undefined, undefined, TRUE),
            TokenClass("Nl", Cls(NewLineChars, 1, Unbounded), SKIPPED, undefined, undefined, FALSE) >>) >>)

\* a skipped token that pops the mode
DefSkipPop ==
    ArrayDef(<<
        TokenClass("Ws", Cls(NewLineChars, 1, Unbounded), SKIPPED, undefined, undefined, TRUE),
        Plain("Word", Cls({CharA}, 1, Unbounded)) >>)

\* a token that both pops and pushes
DefSwap ==
    ModesDef(<<
        ModeDef("M1", <<
            TokenClass("Swap", Lit(<<CharA>>), undefined, undefined, "M2", TRUE),
            TokenClass("B", Lit(<<CharB>>), "g", undefined, "M1", FALSE) >>),
        ModeDef("M2", <<
            TokenClass("Back", Lit(<<CharA>>), undefined, undefined, undefined, TRUE),
            Plain("C", Cls({CharB, CR}, 1, Unbounded)),
            TokenClass("Into", Lit(<<LF>>), SKIPPED, undefined, "M1", TRUE) >>) >>)

\* patterns that match the empty string
DefEmpty ==
    ModesDef(<<
        ModeDef("M1", <<
            TokenClass("E", Cls({CharA}, 0, Unbounded), undefined, undefined, "M2", FALSE) >>),
        ModeDef("M2", <<
            Plain("Y", Lit(<<CharB>>)),
            Plain("S", Cls({CharA}, 0, Unbounded)) >>),
        ModeDef("M3", <<
            TokenClass("Q", Cls({CharB}, 0, Unbounded), SKIPPED, undefined, undefined, FALSE) >>) >>)

\* definition errors in both modes
DefDup ==
    ModesDef(<<
        ModeDef("M1", <<
            Plain("P1", Lit(<<CharA>>)),
            Plain("P2", Lit(<<CharA>>)) >>),
        ModeDef("M2", <<
            Plain("Q1", NoPattern),
            TokenClass("Q2", Lit(<<CharB>>), BadGroup, undefined, "M9", FALSE) >>) >>)

\* definition errors in the second mode only
DefBadLast ==
    ModesDef(<<
        ModeDef("M1", << Plain("P1", Lit(<<CharA>>)) >>),
        ModeDef("M2", <<
            Plain("Q1", [Lit(<<CharB>>) EXCEPT !.eoi = TRUE]),
            Plain("Q2", [Lit(<<CharA>>) EXCEPT !.flags = {"g"}]) >>) >>)

\* definition errors in the first mode only
DefBadFirst ==
    ModesDef(<<
        ModeDef("M1", << Plain("P1", [NoPattern EXCEPT !.kind = "string"]) >>),
        ModeDef("M2", << Plain("Q1", Lit(<<CharB>>)) >>) >>)

\* named groups declared in two modes, no mode is ever left
DefGroups ==
    ModesDef(<<
        ModeDef("M1", <<
            TokenClass("A", Cls({CharA}, 1, Unbounded), "as", undefined, undefined, FALSE),
            TokenClass("N", Cls(NewLineChars, 1, Unbounded), "lines", undefined, undefined, FALSE) >>),
        ModeDef("M2", <<
            TokenClass("B", Cls({CharB}, 1, Unbounded), "bs", undefined, undefined, FALSE) >>) >>)

\* a short pattern declared before a longer one, without a longer alternative
DefOrder ==
    ArrayDef(<<
        Plain("Short", Lit(<<CharA>>)),
        Plain("Long", Cls({CharA, CharB}, 1, Unbounded)),
        TokenClass("Nl", Cls(NewLineChars, 1, Unbounded), SKIPPED, undefined, undefined, FALSE) >>)

\* a chain of longer alternatives, and an alternative shorter than its keyword
DefChain ==
    ArrayDef(<<
        TokenClass("K1", Lit(<<CharA>>), undefined, "K2", undefined, FALSE),
        TokenClass("K2", Lit(<<CharA, CharB>>), undefined, "K3", undefined, FALSE),
        TokenClass("Pair", Lit(<<CharB, CharB>>), undefined, "One", undefined, FALSE),
        Plain("One", Lit(<<CharB>>)),
        Plain("K3", Cls({CharA, CharB}, 1, Unbounded)) >>)

\* the longer alternative is the first pattern of the mode
DefAltFirst ==
    ArrayDef(<<
        Plain("Identifier", Cls({CharB}, 1, Unbounded)),
        TokenClass("Do", Lit(<<CharA>>), undefined, "Identifier", undefined, FALSE) >>)

\* a longer alternative whose group, line terminators and mode directives
\* differ from those of its keyword
DefAlt ==
    ModesDef(<<
        ModeDef("M1", <<
            Plain("W", Cls({CharB}, 1, Unbounded)),
            TokenClass("Open", Lit(<<CharA>>), undefined, undefined, "M2", FALSE) >>),
        ModeDef("M2", <<
            TokenClass("Kw", Lit(<<CharA>>), undefined, "Id", "M1", FALSE),
            TokenClass("Id", Cls({CharA, CharB, LF}, 1, Unbounded), "ids", undefined, undefined, TRUE) >>) >>)

\* a lookahead that matches the empty string before one character only, and
\* pushes a mode
DefLook ==
    ModesDef(<<
        ModeDef("M1", <<
            Plain("P", Lit(<<CharA>>)),
            TokenClass("Z", Look({CharB}), undefined, undefined, "M2", FALSE) >>),
        ModeDef("M2", <<
            Plain("Q", Lit(<<CharA>>)) >>) >>)

Definitions ==
    {DefKeywords, DefLines, DefComments, DefModes, DefSkipPop, DefSwap, DefEmpty,
     DefDup, DefBadLast, DefBadFirst,
     DefGroups, DefOrder, DefChain, DefAltFirst, DefAlt, DefLook}

\* the definition as an object, after the conversion of the array form
AsModes(lexerDefinition) ==
    IF lexerDefinition.isArray
    THEN << ModeDef("default_mode", lexerDefinition.tokens) >>
    ELSE lexerDefinition.modes

keys(modeDefs) == [k \in 1..Len(modeDefs) |-> modeDefs[k].name]

Range(seq) == {seq[k] : k \in 1..Len(seq)}

RECURSIVE Flatten(_)
Flatten(seqs) == IF Len(seqs) = 0 THEN <<>> ELSE Head(seqs) \o Flatten(Tail(seqs))

\* --------------------------------------------------------------- validation
IsRegExp(pattern) == pattern.kind \in {"alt", "cls", "look", "NA"}

DefinitionError(type, tokenClasses) == [type |-> type, tokenClasses |-> tokenClasses]

\* one error of the given type for every class that satisfies Bad
ErrorsWhere(tokenClasses, type, Bad(_)) ==
    LET bad == SelectSeq(tokenClasses, Bad)
    IN  [k \in 1..Len(bad) |-> DefinitionError(type, <<bad[k].name>>)]

\* the errors of one mode, every kind of error reported for every class
validatePatterns(tokenClasses, validModesNames) ==
    LET withPattern == SelectSeq(tokenClasses, LAMBDA c : c.PATTERN.kind # "missing")
        valid == SelectSeq(withPattern, LAMBDA c : IsRegExp(c.PATTERN))
        IsDuplicated(c) ==
            /\ c.PATTERN.kind # "NA"
            /\ \E k, h \in 1..Len(valid) :
                   k < h /\ valid[k] = c /\ valid[h].PATTERN = c.PATTERN
    IN  ErrorsWhere(tokenClasses, "MISSING_PATTERN", LAMBDA c : c.PATTERN.kind = "missing")
        \o ErrorsWhere(withPattern, "INVALID_PATTERN", LAMBDA c : ~IsRegExp(c.PATTERN))
        \o ErrorsWhere(valid, "EOI_ANCHOR_FOUND", LAMBDA c : c.PATTERN.eoi)
        \o ErrorsWhere(valid, "UNSUPPORTED_FLAGS_FOUND", LAMBDA c : c.PATTERN.flags \cap {"g", "m"} # {})
        \o ErrorsWhere(valid, "DUPLICATE_PATTERNS_FOUND", IsDuplicated)
        \o ErrorsWhere(valid, "INVALID_GROUP_TYPE_FOUND", LAMBDA c : c.GROUP = BadGroup)
        \o ErrorsWhere(valid, "PUSH_MODE_DOES_NOT_EXIST",
                       LAMBDA c : c.PUSH_MODE # undefined /\ c.PUSH_MODE \notin Range(validModesNames))

\* ----------------------------------------------------------------- analysis
\* the pattern can match a line terminator
canMatchLineTerminator(pattern) ==
    \/ pattern.set \cap NewLineChars # {}
    \/ \E k \in 1..Len(pattern.alts) : Range(pattern.alts[k]) \cap NewLineChars # {}

\* the parallel arrays of one mode
analyzeTokenClasses(tokenClasses) ==
    LET onlyRelevant == SelectSeq(tokenClasses, LAMBDA c : c.PATTERN.kind # "NA")
        idx == 1..Len(onlyRelevant)
        IdxOf(name) ==
            IF \E k \in idx : onlyRelevant[k].name = name
            THEN (CHOOSE k \in idx : onlyRelevant[k].name = name) - 1
            ELSE undefinedIdx
        groupOf(c) ==
            IF c.GROUP = SKIPPED THEN undefined
            ELSE IF c.GROUP = undefined THEN "default" ELSE c.GROUP
        named == {groupOf(onlyRelevant[k]) : k \in idx} \ {undefined, "default"}
    IN  [allPatterns |-> [k \in idx |-> onlyRelevant[k].PATTERN],
         patternIdxToClass |-> [k \in idx |-> onlyRelevant[k].name],
         patternIdxToGroup |-> [k \in idx |-> groupOf(onlyRelevant[k])],
         patternIdxToLongerAltIdx |->
             [k \in idx |-> IF onlyRelevant[k].LONGER_ALT = undefined THEN undefinedIdx
                            ELSE IdxOf(onlyRelevant[k].LONGER_ALT)],
         patternIdxToCanLineTerminator |->
             [k \in idx |-> canMatchLineTerminator(onlyRelevant[k].PATTERN)],
         patternIdxToPushMode |-> [k \in idx |-> onlyRelevant[k].PUSH_MODE],
         patternIdxToPopMode |-> [k \in idx |-> onlyRelevant[k].POP_MODE],
         emptyGroups |-> [g \in named |-> <<>>]]

\* merge(obj1, obj2): the keys of both, obj2 winning
merge(obj1, obj2) ==
    [g \in (DOMAIN obj1) \cup (DOMAIN obj2) |-> IF g \in DOMAIN obj2 THEN obj2[g] ELSE obj1[g]]

\* the number of line terminators of a string: LF, CR not followed by LF, CR LF once
countLineTerminators(str) ==
    Cardinality({k \in 1..Len(str) :
        \/ str[k] = CR
        \/ str[k] = LF /\ (k = 1 \/ str[k - 1] # CR)})

\* -------------------------------------------------------------- constructor
EmptyMap == [m \in {} |-> <<>>]

\* The fields of a Lexer as their initialisers leave them.  status, message
\* and deferred are not fields: they record how the constructor ended (built
\* or threw, with which message) and the flag it was called with.
NewLexer ==
    [status |-> "new", message |-> <<>>,
     lexerDefinition |-> ArrayDef(<<>>), deferred |-> FALSE,
     lexerDefinitionErrors |-> <<>>,
     modes |-> <<>>,
     allPatterns |-> EmptyMap,
     patternIdxToClass |-> EmptyMap,
     patternIdxToGroup |-> EmptyMap,
     patternIdxToLongerAltIdx |-> EmptyMap,
     patternIdxToCanLineTerminator |-> EmptyMap,
     patternIdxToPushMode |-> EmptyMap,
     patternIdxToPopMode |-> EmptyMap,
     emptyGroups |-> EmptyMap]

\* fault: the empty groups of a mode replace those of the modes before it
VisitModeLastGroups(this, currModDef, currModName, allModeNames) ==
    LET errs == this.lexerDefinitionErrors \o validatePatterns(currModDef, allModeNames)
        visited == [this EXCEPT !.modes = Append(@, currModName),
                                !.lexerDefinitionErrors = errs]
        currAnalyzeResult == analyzeTokenClasses(currModDef)
    IN  IF isEmpty(errs)
        THEN [visited EXCEPT
                 !.allPatterns = @ @@ (currModName :> currAnalyzeResult.allPatterns),
                 !.patternIdxToClass = @ @@ (currModName :> currAnalyzeResult.patternIdxToClass),
                 !.patternIdxToGroup = @ @@ (currModName :> currAnalyzeResult.patternIdxToGroup),
                 !.patternIdxToLongerAltIdx =
                     @ @@ (currModName :> currAnalyzeResult.patternIdxToLongerAltIdx),
                 !.patternIdxToCanLineTerminator =
                     @ @@ (currModName :> currAnalyzeResult.patternIdxToCanLineTerminator),
                 !.patternIdxToPushMode = @ @@ (currModName :> currAnalyzeResult.patternIdxToPushMode),
                 !.patternIdxToPopMode = @ @@ (currModName :> currAnalyzeResult.patternIdxToPopMode),
                 !.emptyGroups = currAnalyzeResult.emptyGroups]
        ELSE visited

\* fault: the errors of a mode replace those of the modes before it
VisitModeOverwrites(this, currModDef, currModName, allModeNames) ==
    [this EXCEPT !.modes = Append(@, currModName),
                 !.lexerDefinitionErrors = validatePatterns(currModDef, allModeNames)]

\* the body of the forEach over the modes of the definition, for one mode
VisitMode(this, currModDef, currModName, allModeNames) ==
    LET errs == this.lexerDefinitionErrors \o validatePatterns(currModDef, allModeNames)
        visited == [this EXCEPT !.modes = Append(@, currModName),
                                !.lexerDefinitionErrors = errs]
        currAnalyzeResult == analyzeTokenClasses(currModDef)
    IN  IF isEmpty(errs)
        THEN [visited EXCEPT
                 !.allPatterns = @ @@ (currModName :> currAnalyzeResult.allPatterns),
                 !.patternIdxToClass = @ @@ (currModName :> currAnalyzeResult.patternIdxToClass),
                 !.patternIdxToGroup = @ @@ (currModName :> currAnalyzeResult.patternIdxToGroup),
                 !.patternIdxToLongerAltIdx =
                     @ @@ (currModName :> currAnalyzeResult.patternIdxToLongerAltIdx),
                 !.patternIdxToCanLineTerminator =
                     @ @@ (currModName :> currAnalyzeResult.patternIdxToCanLineTerminator),
                 !.patternIdxToPushMode = @ @@ (currModName :> currAnalyzeResult.patternIdxToPushMode),
                 !.patternIdxToPopMode = @ @@ (currModName :> currAnalyzeResult.patternIdxToPopMode),
                 !.emptyGroups = merge(@, currAnalyzeResult.emptyGroups)]
        ELSE visited

\* forEach(lexerDefinition, ...): the modes from the k-th on, in order
RECURSIVE ForEachMode(_, _, _, _)
ForEachMode(this, modeDefs, k, allModeNames) ==
    IF k > Len(modeDefs) THEN this
    ELSE ForEachMode(VisitMode(this, modeDefs[k].tokens, modeDefs[k].name, allModeNames),
                     modeDefs, k + 1, allModeNames)

\* the message of the Error thrown: the messages of the errors, joined
allErrMessagesString(errors) == errors

\* new Lexer(lexerDefinition, deferDefinitionErrorsHandling)
Constructor(lexerDefinition, deferDefinitionErrorsHandling) ==
    LET modeDefs == AsModes(lexerDefinition)
        allModeNames == keys(modeDefs)
        this == ForEachMode([NewLexer EXCEPT !.lexerDefinition = lexerDefinition,
                                             !.deferred = deferDefinitionErrorsHandling],
                            modeDefs, 1, allModeNames)
    IN  IF ~isEmpty(this.lexerDefinitionErrors) /\ ~deferDefinitionErrorsHandling
        THEN [this EXCEPT !.status = "threw",
                          !.message = allErrMessagesString(this.lexerDefinitionErrors)]
        ELSE [this EXCEPT !.status = "built"]

\* ------------------------------------------------------------------ tokens
\* new tokClass(image, offset, startLine, startColumn): the end position
\* defaults to the start line and the column of the last character
Token(tokClass, image, offset, startLine, startColumn) ==
    [tokClass |-> tokClass, image |-> image, offset |-> offset,
     startLine |-> startLine, startColumn |-> startColumn,
     endLine |-> startLine, endColumn |-> startColumn + Len(image) - 1]

\* the value of the local newToken before any token was made
NoToken ==
    [tokClass |-> undefined, image |-> <<>>, offset |-> -1,
     startLine |-> -1, startColumn |-> -1, endLine |-> -1, endColumn |-> -1]

\* an entry of errors; message holds what the message text is built from
LexingError(line, column, length, message) ==
    [line |-> line, column |-> column, length |-> length, message |-> message]

PopMessage(image) ==
    [kind |-> "Unable to pop Lexer Mode", image |-> image, offset |-> -1, skipped |-> -1]
UnexpectedMessage(char, offset, skipped) ==
    [kind |-> "unexpected character", image |-> char, offset |-> offset, skipped |-> skipped]

\* fault: the clone holds the arrays of the object it was made from
cloneObjShallow(obj) == [value |-> obj, sharesArrays |-> TRUE]

\* cloneObj(this.emptyGroups): a new object with new, empty buckets, none of
\* them an array of the lexer
cloneObj(obj) == [value |-> obj, sharesArrays |-> FALSE]

\* ---------------------------------------------------------------- tokenize
\* No call of tokenize has been made.  The fields are the locals of
\* tokenize; pc, thrown and message record how far the call got, sharesArrays
\* whether the buckets of groups are arrays of the lexer, and spans is the
\* history of the call: what each iteration consumed, from where, in which
\* mode (the top of the mode stack) and with which pattern index.
NoCall ==
    [pc |-> "idle", thrown |-> "none", message |-> <<>>,
     orgInput |-> <<>>, initialMode |-> undefined,
     text |-> <<>>, offset |-> 0, matchedTokens |-> <<>>, errors |-> <<>>,
     line |-> 1, column |-> 1, groups |-> EmptyMap, sharesArrays |-> FALSE,
     currModePatterns |-> <<>>, currModePatternsLength |-> 0,
     currModePatternIdxToLongerAltIdx |-> <<>>, currModePatternIdxToGroup |-> <<>>,
     currModePatternIdxToClass |-> <<>>, currModePatternIdxToCanLineTerminator |-> <<>>,
     patternIdxToPushMode |-> <<>>, patternIdxToPopMode |-> <<>>,
     modeStack |-> <<>>, newToken |-> NoToken,
     spans |-> <<>>]

\* a TypeError: a property of undefined was read
TypeError(s) == [s EXCEPT !.pc = "threw", !.thrown = "TypeError"]

\* the assignments shared by pop_mode and push_mode: the tables of newMode
\* become the current ones; this.allPatterns[newMode] may be undefined
LoadMode(this, s, newMode) ==
    IF newMode \notin DOMAIN this.allPatterns
    THEN TypeError(s)
    ELSE [s EXCEPT
             !.currModePatterns = this.allPatterns[newMode],
             !.currModePatternsLength = Len(this.allPatterns[newMode]),
             !.currModePatternIdxToLongerAltIdx = this.patternIdxToLongerAltIdx[newMode],
             !.currModePatternIdxToGroup = this.patternIdxToGroup[newMode],
             !.currModePatternIdxToClass = this.patternIdxToClass[newMode],
             !.currModePatternIdxToCanLineTerminator = this.patternIdxToCanLineTerminator[newMode],
             !.patternIdxToPushMode = this.patternIdxToPushMode[newMode],
             !.patternIdxToPopMode = this.patternIdxToPopMode[newMode]]

\* fault: the last mode is popped like any other
pop_modeUnguarded(this, s, popToken) ==
    LET popped == [s EXCEPT !.modeStack = SubSeq(@, 1, Len(@) - 1)]
    IN  LoadMode(this, popped, last(popped.modeStack))

pop_mode(this, s, popToken) ==
    IF Len(s.modeStack) = 1
    THEN IF popToken = NoToken
         THEN TypeError(s)
         ELSE [s EXCEPT !.errors = Append(@,
                   LexingError(popToken.startLine, popToken.startColumn, Len(popToken.image),
                               PopMessage(popToken.image)))]
    ELSE LET popped == [s EXCEPT !.modeStack = SubSeq(@, 1, Len(@) - 1)]
         IN  LoadMode(this, popped, last(popped.modeStack))

push_mode(this, s, newMode) ==
    LoadMode(this, [s EXCEPT !.modeStack = Append(@, newMode)], newMode)

\* fault: groups is the emptyGroups object of the lexer itself, not a clone
StartCallNoClone(this, text, initialMode) ==
    IF ~isEmpty(this.lexerDefinitionErrors)
    THEN [NoCall EXCEPT !.pc = "threw", !.thrown = "Error",
                        !.message = allErrMessagesString(this.lexerDefinitionErrors),
                        !.orgInput = text, !.initialMode = initialMode]
    ELSE LET locals == [NoCall EXCEPT !.pc = "scan",
                                      !.orgInput = text, !.initialMode = initialMode,
                                      !.text = text,
                                      !.groups = this.emptyGroups,
                                      !.sharesArrays = TRUE]
         IN  push_mode(this, locals, initialMode)

\* fault: the test of the definition errors is inverted
StartCallInverted(this, text, initialMode) ==
    IF isEmpty(this.lexerDefinitionErrors)
    THEN [NoCall EXCEPT !.pc = "threw", !.thrown = "Error",
                        !.message = allErrMessagesString(this.lexerDefinitionErrors),
                        !.orgInput = text, !.initialMode = initialMode]
    ELSE LET clone == cloneObj(this.emptyGroups)
             locals == [NoCall EXCEPT !.pc = "scan",
                                      !.orgInput = text, !.initialMode = initialMode,
                                      !.text = text,
                                      !.groups = clone.value,
                                      !.sharesArrays = clone.sharesArrays]
         IN  push_mode(this, locals, initialMode)

\* fault: tokenize does not look at the definition errors
StartCallUnchecked(this, text, initialMode) ==
    LET clone == cloneObj(this.emptyGroups)
        locals == [NoCall EXCEPT !.pc = "scan",
                                 !.orgInput = text, !.initialMode = initialMode,
                                 !.text = text,
                                 !.groups = clone.value,
                                 !.sharesArrays = clone.sharesArrays]
    IN  push_mode(this, locals, initialMode)

\* tokenize(text, initialMode) up to the first test of the main loop
StartCall(this, text, initialMode) ==
    IF ~isEmpty(this.lexerDefinitionErrors)
    THEN [NoCall EXCEPT !.pc = "threw", !.thrown = "Error",
                        !.message = allErrMessagesString(this.lexerDefinitionErrors),
                        !.orgInput = text, !.initialMode = initialMode]
    ELSE LET clone == cloneObj(this.emptyGroups)
             locals == [NoCall EXCEPT !.pc = "scan",
                                      !.orgInput = text, !.initialMode = initialMode,
                                      !.text = text,
                                      !.groups = clone.value,
                                      !.sharesArrays = clone.sharesArrays]
         IN  push_mode(this, locals, initialMode)

\* ------------------------------------------------------ the main iteration
\* a JavaScript index that is neither undefined nor 0
TruthyIdx(i) == i # undefinedIdx /\ i # 0

\* fault: the loop does not stop at the first match, the last pattern that
\* matches wins
FindMatchNoBreak(s) ==
    LET matching == {i \in 0..(s.currModePatternsLength - 1) :
                         exec(At(s.currModePatterns, i), s.text) # noMatch}
    IN  IF matching = {}
        THEN [i |-> s.currModePatternsLength, len |-> noMatch]
        ELSE LET i == CHOOSE k \in matching : \A h \in matching : h <= k
             IN  [i |-> i, len |-> exec(At(s.currModePatterns, i), s.text)]

\* fault: the longest lexeme of all the patterns wins (the first of them)
FindMatchLongest(s) ==
    LET matching == {i \in 0..(s.currModePatternsLength - 1) :
                         exec(At(s.currModePatterns, i), s.text) # noMatch}
        lenOf(i) == exec(At(s.currModePatterns, i), s.text)
        longest == {i \in matching : \A h \in matching : lenOf(h) <= lenOf(i)}
    IN  IF matching = {}
        THEN [i |-> s.currModePatternsLength, len |-> noMatch]
        ELSE LET i == CHOOSE k \in longest : \A h \in longest : k <= h
             IN  [i |-> i, len |-> lenOf(i)]

\* fault: the longer alternative wins with a lexeme of the same length
FindMatchAltOnEqual(s) ==
    LET matching == {i \in 0..(s.currModePatternsLength - 1) :
                         exec(At(s.currModePatterns, i), s.text) # noMatch}
    IN  IF matching = {}
        THEN [i |-> s.currModePatternsLength, len |-> noMatch]
        ELSE LET i == CHOOSE k \in matching : \A h \in matching : k <= h
                 len == exec(At(s.currModePatterns, i), s.text)
                 longerAltIdx == At(s.currModePatternIdxToLongerAltIdx, i)
                 lenAlt == exec(At(s.currModePatterns, longerAltIdx), s.text)
             IN  IF TruthyIdx(longerAltIdx) /\ lenAlt # noMatch /\ lenAlt >= len
                 THEN [i |-> longerAltIdx, len |-> lenAlt]
                 ELSE [i |-> i, len |-> len]

\* fault: a pattern that matches the empty string counts as not matching
FindMatchNonEmpty(s) ==
    LET matching == {i \in 0..(s.currModePatternsLength - 1) :
                         exec(At(s.currModePatterns, i), s.text) > 0}
    IN  IF matching = {}
        THEN [i |-> s.currModePatternsLength, len |-> noMatch]
        ELSE LET i == CHOOSE k \in matching : \A h \in matching : k <= h
                 len == exec(At(s.currModePatterns, i), s.text)
                 longerAltIdx == At(s.currModePatternIdxToLongerAltIdx, i)
                 lenAlt == exec(At(s.currModePatterns, longerAltIdx), s.text)
             IN  IF TruthyIdx(longerAltIdx) /\ lenAlt # noMatch /\ lenAlt > len
                 THEN [i |-> longerAltIdx, len |-> lenAlt]
                 ELSE [i |-> i, len |-> len]

\* the for loop over the patterns of the current mode with the longer
\* alternative: the index and the lexeme length that leave the loop
\* (len = noMatch when match is null)
FindMatch(s) ==
    LET matching == {i \in 0..(s.currModePatternsLength - 1) :
                         exec(At(s.currModePatterns, i), s.text) # noMatch}
    IN  IF matching = {}
        THEN [i |-> s.currModePatternsLength, len |-> noMatch]
        ELSE LET i == CHOOSE k \in matching : \A h \in matching : k <= h
                 len == exec(At(s.currModePatterns, i), s.text)
                 longerAltIdx == At(s.currModePatternIdxToLongerAltIdx, i)
                 lenAlt == exec(At(s.currModePatterns, longerAltIdx), s.text)
             IN  IF TruthyIdx(longerAltIdx) /\ lenAlt # noMatch /\ lenAlt > len
                 THEN [i |-> longerAltIdx, len |-> lenAlt]
                 ELSE [i |-> i, len |-> len]

\* the index the for loop breaks at, before the longer alternative
\* (undefinedIdx when no pattern matches)
FirstMatch(s) ==
    LET matching == {i \in 0..(s.currModePatternsLength - 1) :
                         exec(At(s.currModePatterns, i), s.text) # noMatch}
    IN  IF matching = {} THEN undefinedIdx
        ELSE CHOOSE k \in matching : \A h \in matching : k <= h

\* the iteration executes the exec of the longer alternative: the test
\* if (longerAltIdx) passed
TriesLongerAlt(s) ==
    /\ FirstMatch(s) # undefinedIdx
    /\ TruthyIdx(At(s.currModePatternIdxToLongerAltIdx, FirstMatch(s)))

\* fault: the reverse scan looks for '\n' only
LastLTIdxOnlyLF(matchedImage) ==
    LET lts == {k \in 0..(Len(matchedImage) - 1) : At(matchedImage, k) = LF}
    IN  IF lts = {} THEN -1 ELSE CHOOSE k \in lts : \A h \in lts : h <= k

\* the reverse scan for the last '\r' or '\n' of the image (-1 when none)
LastLTIdx(matchedImage) ==
    LET lts == {k \in 0..(Len(matchedImage) - 1) : At(matchedImage, k) \in {CR, LF}}
    IN  IF lts = {} THEN -1 ELSE CHOOSE k \in lts : \A h \in lts : h <= k

\* patternIdxToPushMode[i], of whatever table is current when it is read
PushModeAt(table, i) == IF i < Len(table) THEN At(table, i) ELSE undefined

\* fault: the offset is not advanced after a match
AdvanceOffsetForgotten(offset, imageLength) == offset

\* offset = offset + imageLength
AdvanceOffset(offset, imageLength) == offset + imageLength

\* the branch of a successful match, for the match m of FindMatch
OnMatch(this, s, m) ==
    LET i == m.i
        matchedImage == SubSeq(s.text, 1, m.len)
        imageLength == Len(matchedImage)
        group == At(s.currModePatternIdxToGroup, i)
        tokClass == At(s.currModePatternIdxToClass, i)
        made == Token(tokClass, matchedImage, s.offset, s.line, s.column)
        lineTerminatorsInMatch == countLineTerminators(matchedImage)
        multiLine == At(s.currModePatternIdxToCanLineTerminator, i) /\ lineTerminatorsInMatch # 0
        line == IF multiLine THEN s.line + lineTerminatorsInMatch ELSE s.line
        lastLTIdx == LastLTIdx(matchedImage)
        column == IF multiLine THEN imageLength - lastLTIdx ELSE s.column + imageLength
        lastCharIsLT == lastLTIdx = imageLength - 1
        fixForEndingInLT == IF lastCharIsLT THEN -1 ELSE 0
        \* the token object is updated in place after it was pushed
        newToken ==
            IF group = undefined THEN s.newToken
            ELSE IF multiLine /\ ~(lineTerminatorsInMatch = 1 /\ lastCharIsLT)
            THEN [made EXCEPT !.endLine = line + fixForEndingInLT,
                              !.endColumn = column - 1 + (-fixForEndingInLT)]
            ELSE made
        advanced ==
            [s EXCEPT
                !.newToken = newToken,
                !.matchedTokens = IF group = "default" THEN Append(@, newToken) ELSE @,
                !.groups = IF group \notin {undefined, "default"}
                           THEN [@ EXCEPT ![group] = Append(@, newToken)] ELSE @,
                !.text = slice(s.text, imageLength),
                !.offset = AdvanceOffset(s.offset, imageLength),
                !.line = line,
                !.column = column,
                !.spans = Append(@, [kind |-> IF group = undefined THEN "skipped" ELSE "token",
                                     start |-> s.offset, image |-> matchedImage,
                                     line |-> s.line, column |-> s.column,
                                     idx |-> i, mode |-> last(s.modeStack)])]
        popped == IF At(s.patternIdxToPopMode, i)
                  THEN pop_mode(this, advanced, newToken) ELSE advanced
        pushMode == PushModeAt(popped.patternIdxToPushMode, i)
    IN  IF popped.pc = "threw" THEN popped
        ELSE IF pushMode # undefined THEN push_mode(this, popped, pushMode)
        ELSE popped

\* fault: every dropped '\r' starts a new line, one followed by '\n' too
DropCharEveryCR(r) ==
    LET droppedChar == r.text[1]
        newLine == droppedChar = LF \/ droppedChar = CR
    IN  [text |-> slice(r.text, 1),
         offset |-> r.offset + 1,
         line |-> IF newLine THEN r.line + 1 ELSE r.line,
         column |-> IF newLine THEN 1 ELSE r.column + 1]

\* fault: the recovery drops a character without counting it in offset
DropCharKeepsOffset(r) ==
    LET droppedChar == r.text[1]
        newLine == \/ droppedChar = LF
                   \/ droppedChar = CR /\
                          (Len(r.text) = 1 \/ (Len(r.text) > 1 /\ r.text[2] # LF))
    IN  [text |-> slice(r.text, 1),
         offset |-> r.offset,
         line |-> IF newLine THEN r.line + 1 ELSE r.line,
         column |-> IF newLine THEN 1 ELSE r.column + 1]

\* one pass of the inner while loop of the recovery: drop the first character
DropChar(r) ==
    LET droppedChar == r.text[1]
        newLine == \/ droppedChar = LF
                   \/ droppedChar = CR /\
                          (Len(r.text) = 1 \/ (Len(r.text) > 1 /\ r.text[2] # LF))
    IN  [text |-> slice(r.text, 1),
         offset |-> r.offset + 1,
         line |-> IF newLine THEN r.line + 1 ELSE r.line,
         column |-> IF newLine THEN 1 ELSE r.column + 1]

\* fault: the patterns are not tested, the rest of the text is dropped
RECURSIVE ResyncToEnd(_, _)
ResyncToEnd(currModePatterns, r) ==
    LET dropped == DropChar(r)
    IN  IF Len(dropped.text) > 0 THEN ResyncToEnd(currModePatterns, dropped) ELSE dropped

\* fault: the while loop is left after the first dropped character
ResyncOneChar(currModePatterns, r) == DropChar(r)

\* the inner while loop: drop characters until a pattern matches or the text ends
RECURSIVE Resync(_, _)
Resync(currModePatterns, r) ==
    LET dropped == DropChar(r)
        foundResyncPoint ==
            \E j \in 0..(Len(currModePatterns) - 1) : test(At(currModePatterns, j), dropped.text)
    IN  IF ~foundResyncPoint /\ Len(dropped.text) > 0
        THEN Resync(currModePatterns, dropped)
        ELSE dropped

\* fault: the error record takes line and column after the characters were
\* dropped
OnErrorPositionAfter(s) ==
    LET errorStartOffset == s.offset
        r == Resync(s.currModePatterns,
                    [text |-> s.text, offset |-> s.offset, line |-> s.line, column |-> s.column])
        errLength == r.offset - errorStartOffset
        msg == UnexpectedMessage(<<At(s.orgInput, errorStartOffset)>>, errorStartOffset,
                                 r.offset - errorStartOffset)
    IN  [s EXCEPT
            !.text = r.text, !.offset = r.offset, !.line = r.line, !.column = r.column,
            !.errors = Append(@, LexingError(r.line, r.column, errLength, msg)),
            !.spans = Append(@, [kind |-> "error", start |-> errorStartOffset,
                                 image |-> SubSeq(s.text, 1, Len(s.text) - Len(r.text)),
                                 line |-> s.line, column |-> s.column,
                                 idx |-> undefinedIdx, mode |-> last(s.modeStack)])]

\* the branch of the error recovery
OnError(s) ==
    LET errorStartOffset == s.offset
        errorLine == s.line
        errorColumn == s.column
        r == Resync(s.currModePatterns,
                    [text |-> s.text, offset |-> s.offset, line |-> s.line, column |-> s.column])
        errLength == r.offset - errorStartOffset
        msg == UnexpectedMessage(<<At(s.orgInput, errorStartOffset)>>, errorStartOffset,
                                 r.offset - errorStartOffset)
    IN  [s EXCEPT
            !.text = r.text, !.offset = r.offset, !.line = r.line, !.column = r.column,
            !.errors = Append(@, LexingError(errorLine, errorColumn, errLength, msg)),
            !.spans = Append(@, [kind |-> "error", start |-> errorStartOffset,
                                 image |-> SubSeq(s.text, 1, Len(s.text) - Len(r.text)),
                                 line |-> errorLine, column |-> errorColumn,
                                 idx |-> undefinedIdx, mode |-> last(s.modeStack)])]

\* the value returned
Result(s) == [tokens |-> s.matchedTokens, groups |-> s.groups, errors |-> s.errors]

\* the main loop run to its end by one call alone; an iteration that consumes
\* nothing is taken only while the call has made fewer than MaxSteps iterations
RECURSIVE MainLoop(_, _)
MainLoop(this, s) ==
    IF s.pc # "scan" THEN s
    ELSE IF Len(s.text) = 0 THEN [s EXCEPT !.pc = "returned"]
    ELSE LET m == FindMatch(s)
         IN  IF m.len = noMatch THEN MainLoop(this, OnError(s))
             ELSE IF m.len > 0 \/ Len(s.spans) < MaxSteps
                  THEN MainLoop(this, OnMatch(this, s, m))
                  ELSE s

\* a whole call of tokenize, nothing else running
tokenize(this, text, initialMode) == MainLoop(this, StartCall(this, text, initialMode))

\* -------------------------------------------------------------------- state
VARIABLES
    lexer,       \* the Lexer object (status "new" before new Lexer(...) ran)
    call,        \* the locals of the tokenize call in progress or last finished
    remembered,  \* a returned call kept for comparison with later calls, and
                 \* the number of calls started since (counted up to 2)
    other        \* the locals of a second tokenize call on the same lexer,
                 \* in progress at the same time as the first

vars == <<lexer, call, remembered, other>>

Init ==
    /\ lexer = NewLexer
    /\ call = NoCall
    /\ remembered = [call |-> NoCall, callsSince |-> 0]
    /\ other = NoCall

\* the buckets of the lexer are the arrays of groups when they are shared
LexerAfter(this, s) ==
    IF s.sharesArrays THEN [this EXCEPT !.emptyGroups = s.groups] ELSE this

\* the buckets of call s after call t took a step: the same arrays when both
\* calls share them with the lexer
Aliased(s, t) ==
    IF s.sharesArrays /\ t.sharesArrays THEN [s EXCEPT !.groups = t.groups] ELSE s

Construct ==
    /\ lexer.status = "new"
    /\ \E lexerDefinition \in Definitions, deferDefinitionErrorsHandling \in BOOLEAN :
           lexer' = Constructor(lexerDefinition, deferDefinitionErrorsHandling)
    /\ UNCHANGED <<call, remembered, other>>

\* the modes a caller may name; undefined stands for the omitted argument
InitialModes == Range(lexer.modes) \cup {"M9", undefined}

\* the first call of tokenize on the lexer
Tokenize ==
    /\ lexer.status = "built"
    /\ call.pc = "idle"
    /\ \E text \in Inputs, initialMode \in InitialModes :
           call' = StartCall(lexer, text,
                             IF initialMode = undefined THEN first(lexer.modes) ELSE initialMode)
    /\ UNCHANGED <<lexer, remembered, other>>

\* a further call of tokenize on the same lexer, after the last one ended;
\* the calls of a sequence of calls are short ones
TokenizeAgain ==
    /\ lexer.status = "built"
    /\ call.pc \in {"returned", "threw"}
    /\ Len(call.orgInput) <= MaxRepeatLen
    /\ \E text \in Strings(MaxRepeatLen), initialMode \in InitialModes :
           call' = StartCall(lexer, text,
                             IF initialMode = undefined THEN first(lexer.modes) ELSE initialMode)
    /\ remembered' = IF remembered.call.pc = "returned"
                     THEN [remembered EXCEPT !.callsSince = Min(@ + 1, 2)]
                     ELSE remembered
    /\ UNCHANGED <<lexer, other>>

MatchStep ==
    /\ call.pc = "scan"
    /\ Len(call.text) > 0
    /\ LET m == FindMatch(call)
       IN  /\ m.len # noMatch
           /\ m.len > 0 \/ Len(call.spans) < MaxSteps
           /\ call' = OnMatch(lexer, call, m)
           /\ lexer' = LexerAfter(lexer, call')
           /\ other' = Aliased(other, call')
    /\ UNCHANGED remembered

RecoverStep ==
    /\ call.pc = "scan"
    /\ Len(call.text) > 0
    /\ FindMatch(call).len = noMatch
    /\ call' = OnError(call)
    /\ UNCHANGED <<lexer, remembered, other>>

Return ==
    /\ call.pc = "scan"
    /\ Len(call.text) = 0
    /\ call' = [call EXCEPT !.pc = "returned"]
    /\ UNCHANGED <<lexer, remembered, other>>

\* keep the result of the call that just returned
Remember ==
    /\ call.pc = "returned"
    /\ remembered.call.pc = "idle"
    /\ Len(call.orgInput) <= MaxRepeatLen
    /\ remembered' = [call |-> call, callsSince |-> 0]
    /\ UNCHANGED <<lexer, call, other>>

Next == Construct \/ Tokenize \/ MatchStep \/ RecoverStep \/ Return

Spec == Init /\ [][Next]_vars

\* calls of tokenize one after the other, one result kept
NextRepeat == Next \/ TokenizeAgain \/ Remember

SpecRepeat == Init /\ [][NextRepeat]_vars

\* the first of two calls of tokenize on the lexer
TokenizeFirst ==
    /\ lexer.status = "built"
    /\ call.pc = "idle"
    /\ \E text \in Strings(MaxRepeatLen), initialMode \in InitialModes :
           call' = StartCall(lexer, text,
                             IF initialMode = undefined THEN first(lexer.modes) ELSE initialMode)
    /\ UNCHANGED <<lexer, remembered, other>>

\* a second call of tokenize starts on the same lexer while the first is in
\* progress
TokenizeOther ==
    /\ lexer.status = "built"
    /\ call.pc = "scan"
    /\ other.pc = "idle"
    /\ \E text \in Strings(MaxRepeatLen), initialMode \in InitialModes :
           other' = StartCall(lexer, text,
                              IF initialMode = undefined THEN first(lexer.modes) ELSE initialMode)
    /\ UNCHANGED <<lexer, call, remembered>>

\* one iteration of the main loop of the second call, a successful match
OtherMatchStep ==
    /\ other.pc = "scan"
    /\ Len(other.text) > 0
    /\ LET m == FindMatch(other)
       IN  /\ m.len # noMatch
           /\ m.len > 0 \/ Len(other.spans) < MaxSteps
           /\ other' = OnMatch(lexer, other, m)
           /\ lexer' = LexerAfter(lexer, other')
           /\ call' = Aliased(call, other')
    /\ UNCHANGED remembered

\* one iteration of the main loop of the second call, error recovery
OtherRecoverStep ==
    /\ other.pc = "scan"
    /\ Len(other.text) > 0
    /\ FindMatch(other).len = noMatch
    /\ other' = OnError(other)
    /\ UNCHANGED <<lexer, call, remembered>>

OtherReturn ==
    /\ other.pc = "scan"
    /\ Len(other.text) = 0
    /\ other' = [other EXCEPT !.pc = "returned"]
    /\ UNCHANGED <<lexer, call, remembered>>

\* two calls of tokenize on one lexer, interleaved iteration by iteration
NextConcurrent ==
    \/ Construct
    \/ TokenizeFirst \/ MatchStep \/ RecoverStep \/ Return
    \/ TokenizeOther \/ OtherMatchStep \/ OtherRecoverStep \/ OtherReturn

SpecConcurrent == Init /\ [][NextConcurrent]_vars

\* =============================================================== properties
\* the lexer was built without definition errors
Valid == lexer.status = "built" /\ isEmpty(lexer.lexerDefinitionErrors)

\* no pattern of any mode matches the empty string
NoEmptyPatterns ==
    \A mode \in DOMAIN lexer.allPatterns :
        \A k \in 1..Len(lexer.allPatterns[mode]) : ~MatchesEmpty(lexer.allPatterns[mode][k])

Returned == call.pc = "returned"

\* every token of the result, of tokens and of the group buckets
AllTokens(s) ==
    Range(s.matchedTokens) \cup UNION {Range(s.groups[g]) : g \in DOMAIN s.groups}

SpansOfKind(s, kinds) == SelectSeq(s.spans, LAMBDA sp : sp.kind \in kinds)

UnexpectedErrors(s) == SelectSeq(s.errors, LAMBDA e : e.message.kind = "unexpected character")

\* the spans are contiguous from offset 0, none is empty, and they
\* concatenate to the input
SpansCoverInput(s) ==
    /\ \A k \in 1..Len(s.spans) : Len(s.spans[k].image) >= 1
    /\ Len(s.spans) > 0 => s.spans[1].start = 0
    /\ \A k \in 1..(Len(s.spans) - 1) :
           s.spans[k + 1].start = s.spans[k].start + Len(s.spans[k].image)
    /\ Flatten([k \in 1..Len(s.spans) |-> s.spans[k].image]) = s.orgInput

\* the spans of emitted tokens and of errors are those the result reports
SpansAreResult(s) ==
    /\ {<<t.offset, t.image>> : t \in AllTokens(s)} =
           {<<sp.start, sp.image>> : sp \in Range(SpansOfKind(s, {"token"}))}
    /\ [k \in 1..Len(UnexpectedErrors(s)) |->
            <<UnexpectedErrors(s)[k].message.offset, UnexpectedErrors(s)[k].length>>] =
       [k \in 1..Len(SpansOfKind(s, {"error"})) |->
            <<SpansOfKind(s, {"error"})[k].start, Len(SpansOfKind(s, {"error"})[k].image)>>]

\* C1: when tokenize returns, for a lexer without definition errors whose
\* patterns never match the empty string, the lexemes of all matches (emitted
\* or skipped) and the skipped spans of the unexpected-character errors are
\* contiguous, do not overlap and concatenate to the input.
C1_InputPartitioned ==
    (Returned /\ Valid /\ NoEmptyPatterns) =>
        SpansCoverInput(call) /\ SpansAreResult(call)

\* a returned call that emitted a token, skipped a match and dropped an
\* unexpected character
C1_Witness ==
    /\ Returned /\ Valid /\ NoEmptyPatterns
    /\ \A kind \in {"token", "skipped", "error"} : Len(SpansOfKind(call, {kind})) > 0

StrictlyIncreasingOffsets(tokens) ==
    \A k \in 1..(Len(tokens) - 1) : tokens[k].offset < tokens[k + 1].offset

OffsetsIncrease(s) ==
    /\ StrictlyIncreasingOffsets(s.matchedTokens)
    /\ \A g \in DOMAIN s.groups : StrictlyIncreasingOffsets(s.groups[g])

\* C2 as stated: in the result of any tokenize call the start offsets of
\* tokens, and of every group bucket, are strictly increasing.
C2_Original == Returned => OffsetsIncrease(call)

\* C2, amended: in the result of a tokenize call of a lexer whose patterns
\* never match the empty string, the start offsets of tokens, and of every
\* group bucket, are strictly increasing.
C2_OffsetsIncrease == (Returned /\ NoEmptyPatterns) => OffsetsIncrease(call)

\* a result with several tokens in tokens or in a bucket
C2_Witness ==
    /\ Returned /\ NoEmptyPatterns
    /\ \E g \in DOMAIN call.groups : Len(call.groups[g]) >= 2
    /\ Len(call.matchedTokens) >= 1

\* the character at position j (1-based) of input ends a line
EndsLine(input, j) ==
    \/ input[j] = LF
    \/ input[j] = CR /\ (j = Len(input) \/ input[j + 1] # LF)

\* line and column of the character at offset k, walking from (1, 1)
WalkLine(input, k) == 1 + Cardinality({j \in 1..k : EndsLine(input, j)})
WalkColumn(input, k) ==
    LET ends == {j \in 1..k : EndsLine(input, j)}
        lastEnd == IF ends = {} THEN 0 ELSE CHOOSE j \in ends : \A h \in ends : h <= j
    IN  k - lastEnd + 1

\* C3: every emitted token starts at the line and column that walking the
\* input from (1, 1) reaches at its start offset.
C3_StartPositions ==
    Valid =>
        \A t \in AllTokens(call) :
            /\ t.startLine = WalkLine(call.orgInput, t.offset)
            /\ t.startColumn = WalkColumn(call.orgInput, t.offset)

\* the initial mode of the call is a mode of the definition
DefinedInitialMode == call.initialMode \in Range(lexer.modes)

\* C4: a call of a lexer without definition errors, started in a defined
\* mode, never fails fatally.
C4_NeverFatal == (Valid /\ DefinedInitialMode) => call.pc # "threw"

Scanning == call.pc = "scan"

\* C5: a call of a lexer whose patterns never match the empty string ends by
\* returning: every iteration consumes at least one character, no step ends
\* the call otherwise, and it returns exactly when offset reaches the length
\* of the input.
C5_ReturnsByProgress ==
    [][(Scanning /\ Valid /\ NoEmptyPatterns /\ DefinedInitialMode) =>
           /\ call'.pc \in {"scan", "returned"}
           /\ call'.pc = "scan" =>
                  call'.offset > call.offset /\ Len(call'.text) < Len(call.text)
           /\ call'.pc = "returned" <=> call.offset = Len(call.orgInput)]_vars

\* the call got as far as creating its mode stack
HasModeStack == call.pc # "idle" /\ call.thrown # "Error"

\* C6: during a tokenize call the mode stack is never empty, and its bottom
\* is the initial mode.
C6_ModeStackNonEmpty ==
    HasModeStack => Len(call.modeStack) >= 1 /\ call.modeStack[1] = call.initialMode

PopErrors(s) == SelectSeq(s.errors, LAMBDA e : e.message.kind = "Unable to pop Lexer Mode")

\* a pop was refused and the call scans on with one mode on the stack
C6_Witness ==
    /\ Scanning /\ Len(call.text) > 0
    /\ Len(call.modeStack) = 1
    /\ Len(PopErrors(call)) > 0

\* the next iteration matches a descriptor with pop_mode, and without
\* push_mode, while the stack holds exactly one mode
PopOfLastMode(s) ==
    /\ s.pc = "scan" /\ Len(s.text) > 0
    /\ FindMatch(s).len # noMatch
    /\ At(s.patternIdxToPopMode, FindMatch(s).i)
    /\ PushModeAt(s.patternIdxToPushMode, FindMatch(s).i) = undefined
    /\ Len(s.modeStack) = 1

CurrentTables(s) ==
    <<s.currModePatterns, s.currModePatternsLength, s.currModePatternIdxToLongerAltIdx,
      s.currModePatternIdxToGroup, s.currModePatternIdxToClass,
      s.currModePatternIdxToCanLineTerminator, s.patternIdxToPushMode, s.patternIdxToPopMode>>

\* the token of the match m of s is the last one of its group in t
EmittedLast(s, m, t) ==
    LET group == At(s.currModePatternIdxToGroup, m.i)
        bucket == IF group = "default" THEN t.matchedTokens ELSE t.groups[group]
        before == IF group = "default" THEN s.matchedTokens ELSE s.groups[group]
    IN  group # undefined =>
            /\ Len(bucket) = Len(before) + 1
            /\ last(bucket).offset = s.offset
            /\ last(bucket).image = SubSeq(s.text, 1, m.len)

\* C7: a pop with exactly one mode on the stack is not performed: stack and
\* current tables stay, exactly one error is appended, the token is emitted
\* and scanning goes on in the same mode.  (Stated for descriptors that have
\* no push_mode of their own, which would change the stack after the pop.)
C7_RefusedPop ==
    [][(Valid /\ PopOfLastMode(call)) =>
           /\ call'.pc = "scan"
           /\ call'.modeStack = call.modeStack
           /\ CurrentTables(call') = CurrentTables(call)
           /\ Len(call'.errors) = Len(call.errors) + 1
           /\ Len(PopErrors(call')) = Len(PopErrors(call)) + 1
           /\ EmittedLast(call, FindMatch(call), call')]_vars

\* the definition errors of all modes, in the order of the modes
AllDefinitionErrors(lexerDefinition) ==
    LET modeDefs == AsModes(lexerDefinition)
    IN  Flatten([k \in 1..Len(modeDefs) |->
                    validatePatterns(modeDefs[k].tokens, keys(modeDefs))])

Constructed == lexer.status # "new"

\* C8: with deferred handling and definition errors the construction
\* succeeds, the errors are in lexerDefinitionErrors, and no tokenize call
\* gets past the check of the errors: each throws.
C8_DeferredErrors ==
    (Constructed /\ lexer.deferred /\ ~isEmpty(AllDefinitionErrors(lexer.lexerDefinition))) =>
        /\ lexer.status = "built"
        /\ lexer.lexerDefinitionErrors = AllDefinitionErrors(lexer.lexerDefinition)
        /\ call.pc \in {"idle", "threw"}
        /\ call.pc = "threw" => call.message = lexer.lexerDefinitionErrors

\* tokenize of the empty string threw on a lexer built with deferred errors
C8_Witness ==
    /\ lexer.status = "built" /\ lexer.deferred
    /\ ~isEmpty(lexer.lexerDefinitionErrors)
    /\ call.pc = "threw" /\ call.orgInput = <<>>
    /\ call.initialMode \in DOMAIN lexer.allPatterns

\* C9: without deferred handling, definition errors make the construction
\* throw, after every mode was validated, with the errors of all modes in
\* the message.
C9_ConstructionFails ==
    (Constructed /\ ~lexer.deferred /\ ~isEmpty(AllDefinitionErrors(lexer.lexerDefinition))) =>
        /\ lexer.status = "threw"
        /\ lexer.modes = keys(AsModes(lexer.lexerDefinition))
        /\ lexer.message = AllDefinitionErrors(lexer.lexerDefinition)

\* the construction threw for a definition with errors in two modes
C9_Witness ==
    /\ lexer.status = "threw"
    /\ LET modeDefs == AsModes(lexer.lexerDefinition)
       IN  Cardinality({k \in 1..Len(modeDefs) :
               ~isEmpty(validatePatterns(modeDefs[k].tokens, keys(modeDefs)))}) >= 2

\* the call c repeats the kept call
Repeats(c, kept) ==
    /\ c.pc = "returned" /\ kept.call.pc = "returned"
    /\ c.orgInput = kept.call.orgInput
    /\ c.initialMode = kept.call.initialMode

Pristine == Constructor(lexer.lexerDefinition, lexer.deferred)

\* call s ended as it ends when it is the only call on the lexer
EndsAsAlone(s) ==
    s.pc \in {"returned", "threw"} =>
        LET alone == tokenize(Pristine, s.orgInput, s.initialMode)
        IN  /\ alone.pc = s.pc
            /\ alone.thrown = s.thrown
            /\ alone.message = s.message
            /\ Result(alone) = Result(s)

\* a step of one call leaves every local of the other call as it was
NoInterference == (call' = call) \/ (other' = other)

AllDescriptors ==
    UNION {Range(modeDef.tokens) : modeDef \in Range(AsModes(lexer.lexerDefinition))}

\* the named groups the descriptors declare
DeclaredGroups == {d.GROUP : d \in AllDescriptors} \ {undefined, SKIPPED}

\* the group of the pattern a span was matched with
GroupOfSpan(sp) == At(lexer.patternIdxToGroup[sp.mode], sp.idx)

\* C12: for any input and initial mode, groups has a bucket for every named
\* group declared by a descriptor of any mode of the definition, the modes the
\* call never enters included; the bucket of a group no lexeme was matched
\* for is present and empty
C12_BucketForEveryGroup ==
    call.pc \in {"scan", "returned"} =>
        \A g \in DeclaredGroups :
            /\ g \in DOMAIN call.groups
            /\ (\A k \in 1..Len(call.spans) :
                    call.spans[k].kind = "token" => GroupOfSpan(call.spans[k]) # g)
               => call.groups[g] = <<>>

\* a call returned without leaving its initial mode, with a token in one
\* bucket and an empty bucket of a group only another mode declares
C12_Witness ==
    /\ Returned
    /\ \A k \in 1..Len(call.spans) : call.spans[k].mode = call.initialMode
    /\ \E g, h \in DOMAIN call.groups :
           /\ Len(call.groups[h]) > 0
           /\ call.groups[g] = <<>>
           /\ g \notin Range(lexer.patternIdxToGroup[call.initialMode])

\* C13: a call with the empty input, of a lexer without definition errors and
\* in a defined initial mode, makes no iteration and returns no tokens, no
\* errors and only empty buckets; its mode stack holds the initial mode alone
C13_EmptyInput ==
    (Valid /\ DefinedInitialMode /\ call.pc # "idle" /\ call.orgInput = <<>>) =>
        /\ call.pc \in {"scan", "returned"}
        /\ call.spans = <<>>
        /\ call.matchedTokens = <<>>
        /\ call.errors = <<>>
        /\ \A g \in DOMAIN call.groups : call.groups[g] = <<>>
        /\ call.modeStack = <<call.initialMode>>

\* a call with the empty input returned, of a lexer that declares a group
C13_Witness ==
    /\ Valid /\ Returned /\ call.orgInput = <<>>
    /\ DOMAIN call.groups # {}
    /\ Result(call) = [tokens |-> <<>>, groups |-> [g \in DOMAIN call.groups |-> <<>>],
                       errors |-> <<>>]

\* the spans of the successful matches of the call
MatchSpans == Range(SpansOfKind(call, {"token", "skipped"}))

\* the input that was left when the span was matched
TextAt(sp) == slice(call.orgInput, sp.start)

\* the length of the lexeme pattern i of the mode of the span matches there
LexemeAt(sp, i) == exec(At(lexer.allPatterns[sp.mode], i), TextAt(sp))

\* the patterns of the mode of the span that match there
MatchingAt(sp) ==
    {i \in 0..(Len(lexer.allPatterns[sp.mode]) - 1) : LexemeAt(sp, i) # noMatch}

\* the first of them in the order of the definition
FirstMatchAt(sp) == CHOOSE i \in MatchingAt(sp) : \A h \in MatchingAt(sp) : i <= h

\* the declared longer alternative of pattern i of the mode of the span
LongerAltAt(sp, i) == At(lexer.patternIdxToLongerAltIdx[sp.mode], i)

\* C14: the pattern a match is made with is the lowest-index pattern of the
\* current mode that matches at the position, or the declared longer
\* alternative of that pattern; no other pattern is chosen, however long the
\* lexeme it would match
C14_FirstMatchWins ==
    \A sp \in MatchSpans :
        /\ MatchingAt(sp) # {}
        /\ sp.idx \in {FirstMatchAt(sp), LongerAltAt(sp, FirstMatchAt(sp))}
        /\ sp.idx # undefinedIdx

\* a match was made with the first matching pattern although a later pattern,
\* not its longer alternative, matches a longer lexeme at the position
C14_Witness ==
    \E sp \in MatchSpans :
        /\ sp.idx = FirstMatchAt(sp)
        /\ \E j \in MatchingAt(sp) :
               /\ j > sp.idx
               /\ j # LongerAltAt(sp, sp.idx)
               /\ LexemeAt(sp, j) > Len(sp.image)

\* the longer alternative of the first matching pattern is declared and
\* matches, at the position of the span, a strictly longer lexeme
AltIsLonger(sp) ==
    LET i == FirstMatchAt(sp)
        longerAltIdx == LongerAltAt(sp, i)
    IN  /\ longerAltIdx # undefinedIdx
        /\ LexemeAt(sp, longerAltIdx) # noMatch
        /\ LexemeAt(sp, longerAltIdx) > LexemeAt(sp, i)

\* C15: the longer alternative replaces the first match exactly when it
\* matches at the same position a strictly longer lexeme, and then its index
\* and lexeme are the match; otherwise the index and the lexeme of the first
\* match are kept. Only the alternative of the first matching pattern is
\* tried: the alternative's own longer alternative never wins.
C15_LongerAltOnlyIfLonger ==
    \A sp \in MatchSpans :
        LET i == FirstMatchAt(sp)
        IN  IF AltIsLonger(sp)
            THEN /\ sp.idx = LongerAltAt(sp, i)
                 /\ Len(sp.image) = LexemeAt(sp, LongerAltAt(sp, i))
            ELSE /\ sp.idx = i
                 /\ Len(sp.image) = LexemeAt(sp, i)

\* a longer alternative won although its own longer alternative matches a
\* still longer lexeme at the position
C15_Witness ==
    \E sp \in MatchSpans :
        /\ AltIsLonger(sp)
        /\ sp.idx # FirstMatchAt(sp)
        /\ LongerAltAt(sp, sp.idx) # undefinedIdx
        /\ LexemeAt(sp, LongerAltAt(sp, sp.idx)) > Len(sp.image)

\* C16: whenever the first matching pattern of an iteration has a longer
\* alternative index set, the iteration attempts the alternative, whatever
\* the index of the alternative in the patterns of the mode, index 0 included
C16_AltAlwaysAttempted ==
    (Scanning /\ Len(call.text) > 0 /\ FirstMatch(call) # undefinedIdx) =>
        (At(call.currModePatternIdxToLongerAltIdx, FirstMatch(call)) # undefinedIdx
            => TriesLongerAlt(call))

\* line and column of the last character of a token, walking its image from
\* the start position of the token
LastCharLine(t) ==
    t.startLine + Cardinality({j \in 1..(Len(t.image) - 1) : EndsLine(t.image, j)})
LastCharColumn(t) ==
    LET ends == {j \in 1..(Len(t.image) - 1) : EndsLine(t.image, j)}
    IN  IF ends = {} THEN t.startColumn + Len(t.image) - 1
        ELSE Len(t.image) - (CHOOSE j \in ends : \A h \in ends : h <= j)

\* the only line terminator of the token is its last character
OneTrailingLT(t) ==
    /\ countLineTerminators(t.image) = 1
    /\ last(t.image) \in {CR, LF}

\* C17: endLine and endColumn of every emitted token are the line and column
\* of its last character, inclusive, unless the token has exactly one line
\* terminator and it is its last character (then they are the defaults of the
\* constructor); tokens with two or more line terminators that end in one
\* are no exception
C17_EndPositions ==
    Valid =>
        \A t \in AllTokens(call) :
            Len(t.image) >= 1 =>
                IF OneTrailingLT(t)
                THEN /\ t.endLine = t.startLine
                     /\ t.endColumn = t.startColumn + Len(t.image) - 1
                ELSE /\ t.endLine = LastCharLine(t)
                     /\ t.endColumn = LastCharColumn(t)

\* the longest lexeme any pattern of the mode of the span matches there
LongestAt(sp) ==
    CHOOSE n \in {LexemeAt(sp, i) : i \in MatchingAt(sp)} :
        \A i \in MatchingAt(sp) : LexemeAt(sp, i) <= n

\* C18 as stated: the lexeme consumed at each position is the longest lexeme
\* that any pattern of the current mode matches there (the longer alternative,
\* itself a pattern of the mode, cannot make it longer)
C18_Original == \A sp \in MatchSpans : Len(sp.image) = LongestAt(sp)

\* C18: the lexeme consumed at each position is the lexeme of the first
\* pattern of the current mode, in the order of the definition, that matches
\* there, or the lexeme of that pattern's longer alternative when it is
\* strictly longer; it is not the longest lexeme of all the patterns
C18_FirstMatchLexeme ==
    \A sp \in MatchSpans :
        LET i == FirstMatchAt(sp)
        IN  Len(sp.image) = IF AltIsLonger(sp) THEN LexemeAt(sp, LongerAltAt(sp, i))
                            ELSE LexemeAt(sp, i)

\* a lexeme was consumed that is shorter than the longest lexeme a pattern of
\* the mode matches at the position
C18_Witness == \E sp \in MatchSpans : Len(sp.image) < LongestAt(sp)

\* the iteration the call is about to make is won by the longer alternative
AltWins(s) ==
    /\ s.pc = "scan" /\ Len(s.text) > 0
    /\ FirstMatch(s) # undefinedIdx
    /\ FindMatch(s).i # FirstMatch(s)

\* the mode stack after a match of a descriptor with these directives: the
\* pop first (refused on the last mode), then the push
StackAfter(stack, popMode, pushMode) ==
    LET popped == IF popMode /\ Len(stack) > 1
                  THEN SubSeq(stack, 1, Len(stack) - 1) ELSE stack
    IN  IF pushMode # undefined THEN Append(popped, pushMode) ELSE popped

\* what an iteration won by the longer alternative leaves, by the entries of
\* the alternative in the tables of the mode the match was made in
AsMatchOfAlt(s, t) ==
    LET alt == FindMatch(s).i
        imageLength == FindMatch(s).len
        matchedImage == SubSeq(s.text, 1, imageLength)
        group == At(s.currModePatternIdxToGroup, alt)
        count == countLineTerminators(matchedImage)
        emitted == IF group = "default" THEN t.matchedTokens
                   ELSE IF group # undefined THEN t.groups[group] ELSE <<>>
        before == IF group = "default" THEN s.matchedTokens
                  ELSE IF group # undefined THEN s.groups[group] ELSE <<>>
    IN  /\ group # undefined =>
               /\ Len(emitted) = Len(before) + 1
               /\ last(emitted).tokClass = At(s.currModePatternIdxToClass, alt)
               /\ last(emitted).image = matchedImage
        /\ group = undefined => (t.matchedTokens = s.matchedTokens /\ t.groups = s.groups)
        /\ IF At(s.currModePatternIdxToCanLineTerminator, alt) /\ count > 0
           THEN t.line = s.line + count
           ELSE t.line = s.line /\ t.column = s.column + imageLength
        /\ t.modeStack = StackAfter(s.modeStack, At(s.patternIdxToPopMode, alt),
                                    At(s.patternIdxToPushMode, alt))

\* C19: when the longer alternative wins, the match is in every respect a
\* match of the alternative: the class and the group of the token, the line
\* terminator flag used for the position, and the pop and push applied after
\* it are those of the alternative's descriptor, and no directive of the
\* descriptor that matched first is applied
C19_AltIsTheMatch == [][AltWins(call) /\ call' # call => AsMatchOfAlt(call, call')]_vars

\* offset, line and column after the match of a span, from where it started:
\* by the lexeme, and by the line terminator flag of its pattern
PositionAfter(sp) ==
    LET L == Len(sp.image)
        canLineTerminate == At(lexer.patternIdxToCanLineTerminator[sp.mode], sp.idx)
        count == countLineTerminators(sp.image)
        terminators == {k \in 0..(L - 1) : At(sp.image, k) \in {CR, LF}}
        lastTerminator == CHOOSE k \in terminators : \A h \in terminators : h <= k
    IN  IF canLineTerminate /\ count > 0
        THEN [offset |-> sp.start + L, line |-> sp.line + count, column |-> L - lastTerminator]
        ELSE [offset |-> sp.start + L, line |-> sp.line, column |-> sp.column + L]

\* where a span starts
PositionOf(sp) == [offset |-> sp.start, line |-> sp.line, column |-> sp.column]

\* C20: a match of a lexeme of length L moves the offset by L; with the line
\* terminator flag of its pattern set and count > 0 terminators in the lexeme,
\* line grows by count and column becomes L minus the index of the last '\r'
\* or '\n' of the lexeme; otherwise line stays and column grows by L. The
\* token or the error that follows starts at exactly that offset, line and
\* column, and line and column are at least 1 in every state.
C20_PositionAfterMatch ==
    /\ call.line >= 1 /\ call.column >= 1
    /\ \A k \in 1..Len(call.spans) :
           call.spans[k].kind \in {"token", "skipped"} =>
               PositionAfter(call.spans[k]) =
                   IF k < Len(call.spans) THEN PositionOf(call.spans[k + 1])
                   ELSE [offset |-> call.offset, line |-> call.line, column |-> call.column]
    /\ \A t \in AllTokens(call) :
           \E sp \in MatchSpans :
               PositionOf(sp) = [offset |-> t.offset, line |-> t.startLine, column |-> t.startColumn]
    /\ \A k \in 1..Len(UnexpectedErrors(call)) :
           LET sp == SpansOfKind(call, {"error"})[k]
           IN  /\ UnexpectedErrors(call)[k].line = sp.line
               /\ UnexpectedErrors(call)[k].column = sp.column

\* a token and an error each start where the match before them ended: the
\* token after a lexeme that ends in '\r', the error after a lexeme without
\* line terminators
C20_Witness ==
    \E j, k \in 1..(Len(call.spans) - 1) :
        /\ call.spans[j].kind = "token" /\ Len(call.spans[j].image) > 0
        /\ last(call.spans[j].image) = CR
        /\ call.spans[j + 1].kind = "token" /\ call.spans[j + 1].column = 1
        /\ call.spans[k].kind = "token" /\ call.spans[k + 1].kind = "error"
        /\ call.spans[k + 1].column > 1

\* the spans of the error recovery episodes of the call, in order
ErrorSpans == SpansOfKind(call, {"error"})

\* the offset at which the span after the k-th starts, or the offset of the
\* call when the k-th span is the last
OffsetAfter(k) ==
    IF k < Len(call.spans) THEN call.spans[k + 1].start ELSE call.offset

\* C21: every error recovery episode appends exactly one error record; its
\* line and column are those of the scanner at the first skipped character,
\* its length is the number of characters skipped (the offset after the
\* recovery minus the offset before), at least 1, and the token or error that
\* follows starts at the start of the error plus that length
C21_OneRecordPerRecovery ==
    /\ Len(UnexpectedErrors(call)) = Len(ErrorSpans)
    /\ \A k \in 1..Len(ErrorSpans) :
           LET e == UnexpectedErrors(call)[k]
           IN  /\ e.line = ErrorSpans[k].line /\ e.column = ErrorSpans[k].column
               /\ e.length = Len(ErrorSpans[k].image)
               /\ e.length >= 1
    /\ \A k \in 1..Len(call.spans) :
           call.spans[k].kind = "error" =>
               /\ OffsetAfter(k) = call.spans[k].start + Len(call.spans[k].image)
               /\ SubSeq(call.orgInput, call.spans[k].start + 1, OffsetAfter(k))
                      = call.spans[k].image

\* a recovery skipped two characters or more, a line terminator among them,
\* and a token follows the error
C21_Witness ==
    \E k \in 1..(Len(call.spans) - 1) :
        /\ call.spans[k].kind = "error" /\ Len(call.spans[k].image) >= 2
        /\ call.spans[k + 1].kind = "token"
        /\ call.spans[k + 1].line > call.spans[k].line

\* some pattern of the mode matches the input at the offset
SomePatternMatches(mode, offset) ==
    \E j \in 0..(Len(lexer.allPatterns[mode]) - 1) :
        test(At(lexer.allPatterns[mode], j), slice(call.orgInput, offset))

\* the mode on top of the stack when the span after the k-th was made, or now
ModeAfter(k) ==
    IF k < Len(call.spans) THEN call.spans[k + 1].mode ELSE last(call.modeStack)

\* C22: a recovery stops at the first offset after its start at which some
\* pattern of the current mode matches, or at the end of the input: no pattern
\* of the mode matches at any offset of the skipped span, and where the span
\* ends the input is exhausted or some pattern of the mode matches. The
\* recovery leaves the mode stack as it is.
C22_MinimalSkip ==
    /\ [](\A k \in 1..Len(call.spans) :
             call.spans[k].kind = "error" =>
                 LET sp == call.spans[k]
                     end == sp.start + Len(sp.image)
                 IN  /\ \A o \in sp.start..(end - 1) : ~SomePatternMatches(sp.mode, o)
                     /\ end = Len(call.orgInput) \/ SomePatternMatches(sp.mode, end)
                     /\ ModeAfter(k) = sp.mode)
    /\ [][(Len(ErrorSpans)' > Len(ErrorSpans)) => call'.modeStack = call.modeStack]_vars

\* a recovery in a mode that was pushed skipped two characters and stopped
\* before the end of the input
C22_Witness ==
    \E k \in 1..Len(call.spans) :
        /\ call.spans[k].kind = "error" /\ Len(call.spans[k].image) >= 2
        /\ call.spans[k].start + Len(call.spans[k].image) < Len(call.orgInput)
        /\ Len(call.modeStack) >= 2

\* offset, line and column where the span after the k-th starts, or those of
\* the call when the k-th span is the last
PositionAfterSpan(k) ==
    IF k < Len(call.spans) THEN PositionOf(call.spans[k + 1])
    ELSE [offset |-> call.offset, line |-> call.line, column |-> call.column]

\* the positions (1-based) of the skipped characters of an error span that
\* start a new line: '\n', and '\r' when it is the last character of the
\* input or the next character of the input is not '\n'
NewLinesSkipped(sp) ==
    {j \in (sp.start + 1)..(sp.start + Len(sp.image)) : EndsLine(call.orgInput, j)}

\* C23: in a recovery each skipped '\n', and each skipped '\r' that ends the
\* input or is not directly followed by '\n', adds 1 to line and sets column
\* to 1; every other skipped character, a '\r' directly followed by '\n'
\* included, adds 1 to column. A '\r\n' pair skipped in one recovery so adds
\* exactly 1 to line and leaves column at 1.
C23_RecoveryLineCount ==
    \A k \in 1..Len(call.spans) :
        call.spans[k].kind = "error" =>
            LET sp == call.spans[k]
                end == sp.start + Len(sp.image)
                newLines == NewLinesSkipped(sp)
                lastNewLine == CHOOSE j \in newLines : \A h \in newLines : h <= j
            IN  PositionAfterSpan(k) =
                    [offset |-> end,
                     line |-> sp.line + Cardinality(newLines),
                     column |-> IF newLines = {} THEN sp.column + Len(sp.image)
                                ELSE 1 + (end - lastNewLine)]

\* a recovery skipped a '\r' and the '\n' after it, and no other line
\* terminator: the line after it is the next line, the column is 1
C23_Witness ==
    \E k \in 1..Len(call.spans) :
        LET sp == call.spans[k]
        IN  /\ sp.kind = "error" /\ Len(sp.image) >= 2
            /\ SubSeq(sp.image, Len(sp.image) - 1, Len(sp.image)) = <<CR, LF>>
            /\ Cardinality({j \in 1..Len(sp.image) : sp.image[j] \in {CR, LF}}) = 2
            /\ PositionAfterSpan(k).line = sp.line + 1
            /\ PositionAfterSpan(k).column = 1

\* the iteration the call is about to make is a match
MatchNext(s) == s.pc = "scan" /\ Len(s.text) > 0 /\ FindMatch(s).len # noMatch

\* the span of the match the call is about to make
SpanNext(s) ==
    [kind |-> "match", start |-> s.offset, image |-> SubSeq(s.text, 1, FindMatch(s).len),
     line |-> s.line, column |-> s.column, idx |-> FindMatch(s).i, mode |-> last(s.modeStack)]

\* the directives of the descriptor of the match the call is about to make
PopModeNext(s) == At(s.patternIdxToPopMode, FindMatch(s).i)
PushModeNext(s) == At(s.patternIdxToPushMode, FindMatch(s).i)

\* C24: a match of a descriptor in the SKIPPED group adds no token to tokens
\* nor to any bucket; it moves offset, line and column as the match of an
\* emitted token does, and the pop_mode and push_mode of the descriptor are
\* applied
C24_SkippedMatch ==
    [][(MatchNext(call) /\ At(call.currModePatternIdxToGroup, FindMatch(call).i) = undefined
            /\ call' # call) =>
           /\ call'.pc = "scan"
           /\ call'.matchedTokens = call.matchedTokens
           /\ call'.groups = call.groups
           /\ [offset |-> call'.offset, line |-> call'.line, column |-> call'.column]
                  = PositionAfter(SpanNext(call))
           /\ call'.modeStack =
                  StackAfter(call.modeStack, PopModeNext(call), PushModeNext(call))]_vars

\* C25: a match of a descriptor with both pop_mode and push_mode, made with
\* two modes or more on the stack, replaces the top of the stack by the pushed
\* mode: the depth and the entries below the top stay. The token of the match
\* is emitted and the position advanced by the tables of the mode the match
\* was made in; the new mode holds for the matches that follow.
C25_PopThenPush ==
    [][(MatchNext(call) /\ PopModeNext(call) /\ PushModeNext(call) # undefined
            /\ Len(call.modeStack) >= 2 /\ call' # call) =>
           /\ call'.pc = "scan"
           /\ call'.modeStack =
                  Append(SubSeq(call.modeStack, 1, Len(call.modeStack) - 1), PushModeNext(call))
           /\ EmittedLast(call, FindMatch(call), call')
           /\ [offset |-> call'.offset, line |-> call'.line, column |-> call'.column]
                  = PositionAfter(SpanNext(call))]_vars

\* the tables the constructor built for a mode
TablesOf(mode) ==
    <<lexer.allPatterns[mode], Len(lexer.allPatterns[mode]),
      lexer.patternIdxToLongerAltIdx[mode], lexer.patternIdxToGroup[mode],
      lexer.patternIdxToClass[mode], lexer.patternIdxToCanLineTerminator[mode],
      lexer.patternIdxToPushMode[mode], lexer.patternIdxToPopMode[mode]>>

\* C26: when an iteration of the main loop starts, and so when the recovery
\* tests the patterns, the current patterns, their number and the current
\* longer alternative, group, class, line terminator, push and pop tables are
\* those of the mode on top of the mode stack; the stack is a LIFO: after the
\* match of a descriptor that pops, and does not push, with two modes or more
\* on the stack, the mode in effect is the one below the mode popped, the one
\* that was in effect before the push of the mode popped.
C26_TablesOfTopMode ==
    /\ [](Scanning => CurrentTables(call) = TablesOf(last(call.modeStack)))
    /\ [][(MatchNext(call) /\ PopModeNext(call) /\ PushModeNext(call) = undefined
               /\ Len(call.modeStack) >= 2 /\ call' # call) =>
              /\ call'.modeStack = SubSeq(call.modeStack, 1, Len(call.modeStack) - 1)
              /\ CurrentTables(call') = TablesOf(call.modeStack[Len(call.modeStack) - 1])]_vars

\* C27: the error record of a refused pop describes the match that attempted
\* the pop: its line and column are those at which the match starts and its
\* length is the length of the lexeme of the match, whatever the group of the
\* descriptor (default, named or SKIPPED) and whether or not a token was
\* emitted earlier in the call
C27_PopErrorOfTheMatch ==
    [][(MatchNext(call) /\ PopModeNext(call) /\ Len(call.modeStack) = 1 /\ call' # call) =>
           /\ call'.pc = "scan"
           /\ Len(PopErrors(call')) = Len(PopErrors(call)) + 1
           /\ last(PopErrors(call')).line = call.line
           /\ last(PopErrors(call')).column = call.column
           /\ last(PopErrors(call')).length = FindMatch(call).len]_vars

\* at the position of the call the first pattern that matches matches the
\* empty string, its longer alternative matches nothing longer, and its
\* descriptor has neither pop_mode nor push_mode
EmptyMatchWins(s) ==
    /\ s.pc = "scan" /\ Len(s.text) > 0
    /\ FirstMatch(s) # undefinedIdx
    /\ exec(At(s.currModePatterns, FirstMatch(s)), s.text) = 0
    /\ LET longerAltIdx == At(s.currModePatternIdxToLongerAltIdx, FirstMatch(s))
       IN  longerAltIdx = undefinedIdx \/ exec(At(s.currModePatterns, longerAltIdx), s.text) <= 0
    /\ ~At(s.patternIdxToPopMode, FirstMatch(s))
    /\ At(s.patternIdxToPushMode, FirstMatch(s)) = undefined

\* C28: when the winning pattern matches the empty string and its descriptor
\* changes no mode, the iteration leaves offset, remaining input, line,
\* column and mode stack as they are and the call in the same situation, so
\* the same holds of every iteration that follows and the call never returns;
\* a descriptor that is not SKIPPED appends one more token with the empty
\* image on each iteration
C28_EmptyMatchLoops ==
    [][(EmptyMatchWins(call) /\ call' # call) =>
           /\ EmptyMatchWins(call')
           /\ call'.text = call.text /\ call'.offset = call.offset
           /\ call'.line = call.line /\ call'.column = call.column
           /\ call'.modeStack = call.modeStack
           /\ call'.errors = call.errors
           /\ LET group == At(call.currModePatternIdxToGroup, FirstMatch(call))
                  bucket == IF group = "default" THEN call'.matchedTokens ELSE call'.groups[group]
              IN  IF group = undefined
                  THEN call'.matchedTokens = call.matchedTokens /\ call'.groups = call.groups
                  ELSE /\ EmittedLast(call, [i |-> FirstMatch(call), len |-> 0], call')
                       /\ last(bucket).image = <<>>]_vars

\* a call has made MaxSteps iterations at one offset, each with the same
\* empty match, and has as many tokens with the empty image
C28_Witness ==
    /\ EmptyMatchWins(call)
    /\ Len(call.spans) = MaxSteps
    /\ \A k \in 1..Len(call.spans) :
           call.spans[k].image = <<>> /\ call.spans[k].start = call.offset
    /\ Len(call.matchedTokens) = MaxSteps
    /\ \A k \in 1..Len(call.matchedTokens) : call.matchedTokens[k].image = <<>>

\* after a recovery that ends before the end of the input the next iteration
\* is a match, in the same mode, at the offset the recovery stopped at
MatchFollowsRecovery ==
    \A k \in 1..Len(call.spans) :
        (call.spans[k].kind = "error"
             /\ call.spans[k].start + Len(call.spans[k].image) < Len(call.orgInput)) =>
            IF k < Len(call.spans)
            THEN /\ call.spans[k + 1].kind \in {"token", "skipped"}
                 /\ call.spans[k + 1].mode = call.spans[k].mode
                 /\ call.spans[k + 1].start = call.spans[k].start + Len(call.spans[k].image)
            ELSE /\ MatchNext(call)
                 /\ last(call.modeStack) = call.spans[k].mode

\* two unexpected-character errors of the result whose skipped spans touch
AdjacentErrors ==
    \E j, k \in 1..Len(UnexpectedErrors(call)) :
        /\ j < k
        /\ ErrorSpans[k].start = ErrorSpans[j].start + UnexpectedErrors(call)[j].length

\* C29 as stated: after a recovery that ends before the end of the input the
\* next iteration is a match in the same mode, and the result never has two
\* unexpected-character errors with adjacent skipped spans
C29_Original == MatchFollowsRecovery /\ ~AdjacentErrors

\* C29: after a recovery that ends before the end of the input the next
\* iteration of the main loop is a match, in the same mode, so between two
\* unexpected-character errors a match, emitted or skipped, was made; when no
\* pattern of the lexer matches the empty string no two such errors have
\* adjacent skipped spans
C29_MatchAfterRecovery ==
    /\ MatchFollowsRecovery
    /\ \A k \in 1..(Len(call.spans) - 1) :
           call.spans[k].kind = "error" => call.spans[k + 1].kind # "error"
    /\ NoEmptyPatterns => ~AdjacentErrors

\* two recoveries of one call, with one match that consumed a character
\* between them
C29_Witness ==
    \E k \in 1..(Len(call.spans) - 2) :
        /\ call.spans[k].kind = "error"
        /\ call.spans[k + 1].kind \in {"token", "skipped"}
        /\ Len(call.spans[k + 1].image) > 0
        /\ call.spans[k + 2].kind = "error"
        /\ Len(UnexpectedErrors(call)) = 2

\* C30: when the descriptor of the match has both pop_mode and push_mode and
\* the mode stack holds one mode, the call goes on, the refused pop appends
\* one error record and the push is done after it: the stack is the initial
\* mode with the pushed mode on top of it
C30_RefusedPopThenPush ==
    [][(MatchNext(call) /\ PopModeNext(call) /\ PushModeNext(call) # undefined
            /\ Len(call.modeStack) = 1 /\ call' # call) =>
           /\ call'.pc = "scan"
           /\ Len(PopErrors(call')) = Len(PopErrors(call)) + 1
           /\ call'.modeStack = Append(call.modeStack, PushModeNext(call))]_vars

====
